---- MODULE Spec2Model ----
(***************************************************************************)
(* Model of src/main.py: check_trim_image_csv_timing, the checker that     *)
(* reconciles dated trim_image .npy files with the first column of the     *)
(* companion CSV file of the same date.                                    *)
(*                                                                         *)
(* Time is an integer number of milliseconds counted from the start of the *)
(* month (day of month, hour, minute, second, millisecond); every input of *)
(* the model lies in one month, so differences of these numbers are the    *)
(* differences of the datetime objects of the code.  A DateKey is the      *)
(* number its 8 digits spell, so that the order of the 8-character strings *)
(* is the order of the numbers.                                            *)
(*                                                                         *)
(* One action is one pass through the body of the loop of line 126 (or    *)
(* the discovery before it, or the report after it).  Locals that every    *)
(* iteration assigns before it reads them (trim_files, csv_times,          *)
(* trim_times, set_time_diffs) are shown empty when the iteration did not  *)
(* reach their assignment; "warnings" is the one local that an iteration   *)
(* may read without assigning it, so its binding is carried in the state.  *)
(* The input alphabet holds well-formed clock values only: a name whose    *)
(* digits are no valid time, or whose last group exceeds 999, makes        *)
(* strptime / replace raise ValueError and is not drawn.  The test of      *)
(* lines 158-160 cannot succeed for a key of common_dates and has no       *)
(* action.                                                                 *)
(***************************************************************************)
EXTENDS Integers, Sequences, FiniteSets, TLC

(* ---------------------------------------------------------------------- *)
(* Parameters of check_trim_image_csv_timing as main() passes them.       *)
(* ---------------------------------------------------------------------- *)
time_diff_threshold == 300

trim_interval_threshold == 1

(* ---------------------------------------------------------------------- *)
(* Bounds of the model.                                                   *)
(* ---------------------------------------------------------------------- *)
\* longest directory listing / CSV body of one date in a whole run
MaxFiles == 2

MaxRows == 2

\* longest directory listing / CSV body when one date is analysed alone
MaxDateFiles == 4

MaxDateRows == 4

(* ---------------------------------------------------------------------- *)
(* Input alphabet.                                                        *)
(* A file name is its text together with the digit groups that the        *)
(* pattern (\d{8})-(\d{6})-(\d+)\.npy captures (<<>> when re.match        *)
(* fails) and whether the text ends in ".npy".                            *)
(* A CSV row is the list of its fields; a first column is the list of     *)
(* numbers its text splits into at "/", " " and ":" ("" is <<>>).         *)
(* ---------------------------------------------------------------------- *)
N1 == [name |-> "20241213-073600-000.npy", groups |-> <<20241213, 73600, 0>>, npy |-> TRUE]

N2 == [name |-> "20241213-073600-999.npy", groups |-> <<20241213, 73600, 999>>, npy |-> TRUE]

N3 == [name |-> "20241213-073601-000.npy", groups |-> <<20241213, 73601, 0>>, npy |-> TRUE]

N4 == [name |-> "20241213-074059-999.npy", groups |-> <<20241213, 74059, 999>>, npy |-> TRUE]

NX == [name |-> "frame.npy", groups |-> <<>>, npy |-> TRUE]

NT == [name |-> "20241213-073600-000.txt", groups |-> <<>>, npy |-> FALSE]

\* "2024/12/13 7:31", second field "a"
RA == << <<2024, 12, 13, 7, 31>>, "a" >>

\* "2024/12/13 7:36:00", second field "b"
RB == << <<2024, 12, 13, 7, 36, 0>>, "b" >>

\* empty first column
RE == << <<>>, "c" >>

\* first column "2024/12/13": matches neither format
RX == << <<2024, 12, 13>>, "d" >>

RunNames == {N1, NX, NT}

RunRows == {RA, RB, RX}

DateNames == {N1, N2, N3, N4}

DateRows == {RA, RB, RE}

\* entries a root directory may hold: key is the number the name spells when
\* the name is 8 digits (trim side) or the first run of 8 digits in the name
\* (CSV side), 0 when there is none
TrimEntries == {[key |-> 20241212, isdir |-> TRUE], [key |-> 20241213, isdir |-> TRUE], [key |-> 20241214, isdir |-> TRUE], [key |-> 20241215, isdir |-> FALSE], [key |-> 0, isdir |-> TRUE]}

CsvEntries == {[key |-> 20241213, isfile |-> TRUE, csvext |-> TRUE], [key |-> 20241214, isfile |-> TRUE, csvext |-> TRUE], [key |-> 20241215, isfile |-> TRUE, csvext |-> FALSE], [key |-> 20241215, isfile |-> FALSE, csvext |-> TRUE], [key |-> 0, isfile |-> TRUE, csvext |-> TRUE]}

(* ---------------------------------------------------------------------- *)
(* Helpers.                                                               *)
(* ---------------------------------------------------------------------- *)
Abs(x) == IF x < 0 THEN -x ELSE x

Range(s) == {s[i] : i \in 1..Len(s)}

\* sequences over S of length at most n
BoundedSeq(S, n) == UNION {[1..k -> S] : k \in 0..n}

\* sequences over S without repetition, of length at most n
Listings(S, n) == {s \in BoundedSeq(S, n) : \A i, j \in 1..Len(s) : i # j => s[i] # s[j]}

\* NoTime stands for None returned by a parser
NoTime == -1

(* ---------------------------------------------------------------------- *)
(* parse_trim_image_time and parse_csv_time.                              *)
(* ---------------------------------------------------------------------- *)
\* milliseconds from day of month d, HHMMSS digits and a millisecond part
ClockMs(d, hh, mi, ss, ms) == (((d * 24 + hh) * 60 + mi) * 60 + ss) * 1000 + ms

parse_trim_image_time(filename) ==
  IF filename.groups = <<>> THEN <<>>
  ELSE LET date_str == filename.groups[1]
           time_str == filename.groups[2]
           milliseconds == filename.groups[3]
       IN << ClockMs(date_str % 100, time_str \div 10000, (time_str \div 100) % 100, time_str % 100, milliseconds), milliseconds >>

parse_csv_time(time_str) ==
  IF Len(time_str) = 5 THEN ClockMs(time_str[3], time_str[4], time_str[5], 0, 0)
  ELSE IF Len(time_str) = 6 THEN ClockMs(time_str[3], time_str[4], time_str[5], time_str[6], 0)
  ELSE NoTime

(* ---------------------------------------------------------------------- *)
(* State.                                                                 *)
(* ---------------------------------------------------------------------- *)
VARIABLES
  pc,                    \* "start", "loop", "done", "halted", "crashed"
  roots,                 \* what os.path.exists / isdir say of the two roots
  halt_msg,              \* which early return of lines 64-114 was taken
  csv_match_required,    \* the argument of check_trim_image_csv_timing
  trim_date_directories, \* DateKeys found under the trim root
  csv_date_files,        \* DateKeys found among the CSV file names
  common_dates,          \* sorted intersection, the sequence the loop walks
  visited,               \* DateKeys whose loop iteration has begun, in order
  date_dir,              \* DateKey of the latest iteration (0 before the first)
  outcome,               \* DateKey -> how its iteration ended
  trim_files,            \* its directory listing after the .npy filter
  csv_file,              \* the CSV file it opened
  trim_times,            \* its parsed image records, sorted by time
  csv_times,             \* its parsed CSV timestamps, sorted
  time_diffs,            \* time_diff of each pair it printed
  set_time_diffs,        \* the sets it built
  warnings,              \* the local name "warnings" ...
  warnings_bound,        \* ... and whether it has been bound yet
  total_trim_images,
  total_csv_lines,
  date_summary,          \* DateKey -> summary entry
  inline,                \* DateKey -> warnings printed while the date ran
  report                 \* the final summary (lines 331-365), once printed

vars == <<pc, roots, halt_msg, csv_match_required, trim_date_directories, csv_date_files, common_dates, visited, date_dir, outcome, trim_files, csv_file, trim_times, csv_times, time_diffs, set_time_diffs, warnings, warnings_bound, total_trim_images, total_csv_lines, date_summary, inline, report>>

NoFile == [header |-> FALSE, rows |-> <<>>, utf8_ok |-> TRUE, utf8_read |-> 0, sjis_ok |-> TRUE]

NoReport == [printed |-> FALSE, lines |-> <<>>, total_trim_images |-> 0, total_csv_lines |-> 0, overall_consistent |-> TRUE, all_warnings |-> <<>>]

EmptyMap == [d \in {} |-> 0]

AllPresent == [trim_exists |-> TRUE, csv_exists |-> TRUE, trim_isdir |-> TRUE, csv_isdir |-> TRUE]

Put(m, k, v) == [d \in DOMAIN m \cup {k} |-> IF d = k THEN v ELSE m[d]]

\* a path that is a directory exists
RootStates == {r \in [trim_exists : BOOLEAN, csv_exists : BOOLEAN, trim_isdir : BOOLEAN, csv_isdir : BOOLEAN] : (r.trim_isdir => r.trim_exists) /\ (r.csv_isdir => r.csv_exists)}

Init ==
  /\ pc = "start"
  /\ roots \in RootStates
  /\ halt_msg = ""
  /\ csv_match_required = TRUE
  /\ trim_date_directories = {}
  /\ csv_date_files = {}
  /\ common_dates = <<>>
  /\ visited = <<>>
  /\ date_dir = 0
  /\ outcome = EmptyMap
  /\ trim_files = <<>>
  /\ csv_file = NoFile
  /\ trim_times = <<>>
  /\ csv_times = <<>>
  /\ time_diffs = <<>>
  /\ set_time_diffs = <<>>
  /\ warnings = <<>>
  /\ warnings_bound = FALSE
  /\ total_trim_images = 0
  /\ total_csv_lines = 0
  /\ date_summary = EmptyMap
  /\ inline = EmptyMap
  /\ report = NoReport

(* ---------------------------------------------------------------------- *)
(* Discovery, lines 64-123.                                               *)
(* ---------------------------------------------------------------------- *)
\* list.sort() / sorted() on a set of distinct keys: ascending sequence
RECURSIVE SortedKeys(_)
SortedKeys(S) ==
  IF S = {} THEN <<>>
  ELSE LET m == CHOOSE x \in S : \A y \in S : x <= y
       IN <<m>> \o SortedKeys(S \ {m})

CommonDatesUnion(trim, csv) == SortedKeys(trim \cup csv)

CommonDates(trim, csv) == SortedKeys(trim \cap csv)

TrimDateDirectories(entries) == {e.key : e \in {x \in entries : x.isdir /\ x.key # 0}}

CsvDateFiles(entries) == {e.key : e \in {x \in entries : x.isfile /\ x.csvext /\ x.key # 0}}

Discover ==
  /\ pc = "start"
  /\ \E te \in SUBSET TrimEntries, ce \in SUBSET CsvEntries :
       /\ LET dirs == TrimDateDirectories(te)
              keys == CsvDateFiles(ce)
              common == CommonDates(dirs, keys)
              msg == IF ~roots.trim_exists THEN "trim_base_dir does not exist"
                     ELSE IF ~roots.csv_exists THEN "csv_base_dir does not exist"
                     ELSE IF ~roots.trim_isdir THEN "trim_base_dir is not a directory"
                     ELSE IF ~roots.csv_isdir THEN "csv_base_dir is not a directory"
                     ELSE IF dirs = {} THEN "no date directory"
                     ELSE IF keys = {} THEN "no dated csv"
                     ELSE IF common = <<>> THEN "no common date"
                     ELSE ""
              listed_trim == roots = AllPresent
              listed_csv == listed_trim /\ dirs # {}
          IN /\ halt_msg' = msg
             /\ pc' = IF msg = "" THEN "loop" ELSE "halted"
             /\ trim_date_directories' = IF listed_trim THEN dirs ELSE {}
             /\ csv_date_files' = IF listed_csv THEN keys ELSE {}
             /\ common_dates' = IF listed_csv /\ keys # {} THEN common ELSE <<>>
  /\ UNCHANGED <<roots, csv_match_required, visited, date_dir, outcome, trim_files, csv_file, trim_times, csv_times, time_diffs, set_time_diffs, warnings, warnings_bound, total_trim_images, total_csv_lines, date_summary, inline, report>>

(* ---------------------------------------------------------------------- *)
(* One date: reading the inputs, lines 147-199.                           *)
(* ---------------------------------------------------------------------- *)
\* line 149: keep the entries whose name ends in ".npy"
ListNpy(entries) == SelectSeq(entries, LAMBDA f : f.npy)

\* lines 170-174 (and 180-184): append the timestamp of every row whose first
\* column is present, non-blank and parseable
RowCounts(row) == row # <<>> /\ Len(row) > 0 /\ row[1] # <<>> /\ parse_csv_time(row[1]) # NoTime

RECURSIVE ReadRows(_, _)
ReadRows(rows, acc) ==
  IF rows = <<>> THEN acc
  ELSE ReadRows(Tail(rows), IF RowCounts(Head(rows)) THEN Append(acc, parse_csv_time(Head(rows)[1])) ELSE acc)

\* lines 164-187 for a file that one of the two decoders accepts: the rows
\* the utf-8 pass appended before its UnicodeDecodeError stay in csv_times
\* when the shift_jis pass appends every row
LoadCsvTimes(file) ==
  IF file.utf8_ok THEN ReadRows(file.rows, <<>>)
  ELSE ReadRows(file.rows, ReadRows(SubSeq(file.rows, 1, file.utf8_read), <<>>))

\* lines 190-195
RECURSIVE ParseTrimFiles(_)
ParseTrimFiles(files) ==
  IF files = <<>> THEN <<>>
  ELSE LET r == parse_trim_image_time(Head(files))
           rest == ParseTrimFiles(Tail(files))
       IN IF r = <<>> THEN rest
          ELSE <<[name |-> Head(files).name, time |-> r[1], ms |-> r[2]]>> \o rest

\* list.sort is stable: an element goes behind the elements that are not
\* greater than it
InsertTime(sorted, x) ==
  LET k == Cardinality({i \in 1..Len(sorted) : sorted[i] <= x})
  IN SubSeq(sorted, 1, k) \o <<x>> \o SubSeq(sorted, k + 1, Len(sorted))

RECURSIVE SortTimes(_)
SortTimes(s) == IF s = <<>> THEN <<>> ELSE InsertTime(SortTimes(SubSeq(s, 1, Len(s) - 1)), s[Len(s)])

InsertTrim(sorted, x) ==
  LET k == Cardinality({i \in 1..Len(sorted) : sorted[i].time <= x.time})
  IN SubSeq(sorted, 1, k) \o <<x>> \o SubSeq(sorted, k + 1, Len(sorted))

RECURSIVE SortTrim(_)
SortTrim(s) == IF s = <<>> THEN <<>> ELSE InsertTrim(SortTrim(SubSeq(s, 1, Len(s) - 1)), s[Len(s)])

(* ---------------------------------------------------------------------- *)
(* One date: the pair loop, lines 212-272.                                *)
(* ---------------------------------------------------------------------- *)
\* f"{x:.1f}" of a number of seconds given in milliseconds, in tenths
Tenths(ms) == (ms + 50) \div 100

TimeDiffWarnedStrict(time_diff) == time_diff > time_diff_threshold * 1000

\* line 229
TimeDiffWarned(time_diff) == time_diff >= time_diff_threshold * 1000

\* line 260
TrimIntervalWarned(set_trim_diff) == set_trim_diff >= trim_interval_threshold * 1000

ClosesSetEven(i) == i % 2 = 0 /\ i > 0

\* lines 235-236, i is the 0-based index of the pair
ClosesSet(i) == i % 2 = 1 /\ i > 0

\* lines 244-257: the file is read again as utf-8 and the raw data rows at
\* list positions i-1 and i are compared; any exception leaves False
CsvRowMatch(file, i) ==
  IF file.utf8_ok /\ i < Len(file.rows) /\ i - 1 < Len(file.rows)
  THEN file.rows[i] = file.rows[i + 1]
  ELSE FALSE

RECURSIVE PairLoop(_, _, _, _, _, _)
PairLoop(i, tt, ct, file, required, acc) ==
  IF i >= Len(tt) \/ i >= Len(ct) THEN acc
  ELSE LET trim == tt[i + 1]
           time_diff == Abs(trim.time - ct[i + 1])
           w1 == IF TimeDiffWarned(time_diff)
                 THEN Append(acc.warnings, [kind |-> "time_diff", file |-> trim.name, set |-> 0, diff |-> Tenths(time_diff)])
                 ELSE acc.warnings
           closes == ClosesSet(i)
           set_trim_diff == IF closes THEN Abs(trim.time - tt[i].time) ELSE 0
           csv_row_match == closes /\ CsvRowMatch(file, i)
           w2 == IF closes /\ TrimIntervalWarned(set_trim_diff)
                 THEN Append(w1, [kind |-> "trim_interval", file |-> "", set |-> (i \div 2) + 1, diff |-> Tenths(set_trim_diff)])
                 ELSE w1
           w3 == IF closes /\ required /\ ~csv_row_match
                 THEN Append(w2, [kind |-> "csv_match", file |-> "", set |-> (i \div 2) + 1, diff |-> 0])
                 ELSE w2
           sets == IF closes
                   THEN Append(acc.set_time_diffs, [set_number |-> (i \div 2) + 1, trim_diff |-> set_trim_diff, csv_match |-> csv_row_match, trim_file_prev |-> tt[i].name, trim_file_curr |-> trim.name])
                   ELSE acc.set_time_diffs
       IN PairLoop(i + 1, tt, ct, file, required, [warnings |-> w3, time_diffs |-> Append(acc.time_diffs, time_diff), set_time_diffs |-> sets])

\* lines 189-272 for one listing and one accepted CSV file
Analyse(files, file, required) ==
  LET tt == SortTrim(ParseTrimFiles(files))
      ct == SortTimes(LoadCsvTimes(file))
      empty == [warnings |-> <<>>, time_diffs |-> <<>>, set_time_diffs |-> <<>>]
  IN [trim_times |-> tt, csv_times |-> ct, matched |-> Len(tt) = Len(ct),
      loop |-> IF Len(tt) = Len(ct) THEN PairLoop(0, tt, ct, file, required, empty) ELSE empty]

SummaryEntryAtLeast(tt, ct, w) == [trim_images |-> Len(tt), csv_lines |-> Len(ct), consistent |-> Len(tt) >= Len(ct), warnings |-> w]

\* lines 323-328
SummaryEntry(tt, ct, w) == [trim_images |-> Len(tt), csv_lines |-> Len(ct), consistent |-> Len(tt) = Len(ct), warnings |-> w]

(* ---------------------------------------------------------------------- *)
(* The loop over common_dates, lines 126-329.                             *)
(* ---------------------------------------------------------------------- *)
DirFaults == {"affine_data missing", "trim_image missing", "trim_image not a directory", "listdir error"}

\* CSV files with at most n data rows over Rows.  NoFile (header = FALSE) is
\* the empty file; utf8_read is the number of data rows the utf-8 reader
\* yields before it raises UnicodeDecodeError (when it does)
Utf8Files(Rows, n) == {[header |-> TRUE, rows |-> r, utf8_ok |-> TRUE, utf8_read |-> Len(r), sjis_ok |-> TRUE] : r \in BoundedSeq(Rows, n)}

SjisFiles(Rows, n) == UNION {{[header |-> TRUE, rows |-> r, utf8_ok |-> FALSE, utf8_read |-> k, sjis_ok |-> TRUE] : k \in 0..Len(r)} : r \in BoundedSeq(Rows, n)}

\* a file neither decoder accepts; its rows are never seen
UnreadableFile == [header |-> TRUE, rows |-> <<>>, utf8_ok |-> FALSE, utf8_read |-> 0, sjis_ok |-> FALSE]

\* inputs of one iteration: the listing of trim_image and the CSV file
InputsOver(Names, Files, mf) == {[listing |-> l, csv |-> c] : l \in Listings(Names, mf), c \in Files}

RunAccepted == InputsOver(RunNames, Utf8Files(RunRows, MaxRows) \cup SjisFiles(RunRows, MaxRows), MaxFiles)

RunUnreadable == InputsOver(RunNames, {UnreadableFile}, MaxFiles)

RunEmpty == InputsOver(RunNames, {NoFile}, MaxFiles)

DateAccepted == InputsOver(DateNames, Utf8Files(DateRows, MaxDateRows) \cup SjisFiles(DateRows, MaxDateRows), MaxDateFiles)

DateUnreadable == InputsOver(DateNames, {UnreadableFile}, MaxDateFiles)

DateEmpty == InputsOver(DateNames, {NoFile}, MaxDateFiles)

InLoop == pc = "loop" /\ Len(visited) < Len(common_dates)

NextDateDir == common_dates[Len(visited) + 1]

\* a skip that returns from the function instead of continuing the loop
SkipDateReturns ==
  /\ InLoop
  /\ \E fault \in DirFaults : outcome' = Put(outcome, NextDateDir, fault)
  /\ visited' = Append(visited, NextDateDir)
  /\ date_dir' = NextDateDir
  /\ trim_files' = <<>>
  /\ csv_file' = NoFile
  /\ trim_times' = <<>>
  /\ csv_times' = <<>>
  /\ time_diffs' = <<>>
  /\ set_time_diffs' = <<>>
  /\ pc' = "halted"
  /\ UNCHANGED <<roots, halt_msg, csv_match_required, trim_date_directories, csv_date_files, common_dates, warnings, warnings_bound, total_trim_images, total_csv_lines, date_summary, inline, report>>

\* lines 130-153: one of the "continue" exits before the CSV file is opened
SkipDate ==
  /\ InLoop
  /\ \E fault \in DirFaults : outcome' = Put(outcome, NextDateDir, fault)
  /\ visited' = Append(visited, NextDateDir)
  /\ date_dir' = NextDateDir
  /\ trim_files' = <<>>
  /\ csv_file' = NoFile
  /\ trim_times' = <<>>
  /\ csv_times' = <<>>
  /\ time_diffs' = <<>>
  /\ set_time_diffs' = <<>>
  /\ UNCHANGED <<pc, roots, halt_msg, csv_match_required, trim_date_directories, csv_date_files, common_dates, warnings, warnings_bound, total_trim_images, total_csv_lines, date_summary, inline, report>>

\* lines 166-169 on an empty file: next(reader) raises StopIteration, which
\* the handler of line 175 does not catch
CsvFault(x) ==
  /\ InLoop
  /\ ~x.csv.header
  /\ outcome' = Put(outcome, NextDateDir, "StopIteration")
  /\ pc' = "crashed"
  /\ visited' = Append(visited, NextDateDir)
  /\ date_dir' = NextDateDir
  /\ trim_files' = ListNpy(x.listing)
  /\ csv_file' = x.csv
  /\ trim_times' = <<>>
  /\ csv_times' = <<>>
  /\ time_diffs' = <<>>
  /\ set_time_diffs' = <<>>
  /\ UNCHANGED <<roots, halt_msg, csv_match_required, trim_date_directories, csv_date_files, common_dates, warnings, warnings_bound, total_trim_images, total_csv_lines, date_summary, inline, report>>

\* lines 175-187: both decoders fail
CsvUnreadable(x) ==
  /\ InLoop
  /\ x.csv.header /\ ~x.csv.utf8_ok /\ ~x.csv.sjis_ok
  /\ outcome' = Put(outcome, NextDateDir, "csv read error")
  /\ visited' = Append(visited, NextDateDir)
  /\ date_dir' = NextDateDir
  /\ trim_files' = ListNpy(x.listing)
  /\ csv_file' = x.csv
  /\ trim_times' = <<>>
  /\ csv_times' = <<>>
  /\ time_diffs' = <<>>
  /\ set_time_diffs' = <<>>
  /\ UNCHANGED <<pc, roots, halt_msg, csv_match_required, trim_date_directories, csv_date_files, common_dates, warnings, warnings_bound, total_trim_images, total_csv_lines, date_summary, inline, report>>

Accepted(x) == x.csv.header /\ (x.csv.utf8_ok \/ x.csv.sjis_ok)

\* lines 189-328 when the two sorted lists have the same length
PairDate(x) ==
  /\ InLoop
  /\ Accepted(x)
  /\ LET a == Analyse(ListNpy(x.listing), x.csv, csv_match_required)
     IN /\ a.matched
        /\ outcome' = Put(outcome, NextDateDir, "matched")
        /\ trim_times' = a.trim_times
        /\ csv_times' = a.csv_times
        /\ time_diffs' = a.loop.time_diffs
        /\ set_time_diffs' = a.loop.set_time_diffs
        /\ warnings' = a.loop.warnings
        /\ warnings_bound' = TRUE
        /\ inline' = Put(inline, NextDateDir, a.loop.warnings)
        /\ total_trim_images' = total_trim_images + Len(a.trim_times)
        /\ total_csv_lines' = total_csv_lines + Len(a.csv_times)
        /\ date_summary' = Put(date_summary, NextDateDir, SummaryEntry(a.trim_times, a.csv_times, a.loop.warnings))
  /\ visited' = Append(visited, NextDateDir)
  /\ date_dir' = NextDateDir
  /\ trim_files' = ListNpy(x.listing)
  /\ csv_file' = x.csv
  /\ UNCHANGED <<pc, roots, halt_msg, csv_match_required, trim_date_directories, csv_date_files, common_dates, report>>

\* lines 189-208 and 316-328 when the lengths differ: "warnings" is read at
\* line 327 without having been assigned in this iteration
MismatchDate(x) ==
  /\ InLoop
  /\ Accepted(x)
  /\ LET a == Analyse(ListNpy(x.listing), x.csv, csv_match_required)
     IN /\ ~a.matched
        /\ outcome' = Put(outcome, NextDateDir, "failed")
        /\ trim_times' = a.trim_times
        /\ csv_times' = a.csv_times
        /\ time_diffs' = <<>>
        /\ set_time_diffs' = <<>>
        /\ inline' = Put(inline, NextDateDir, <<>>)
        /\ total_trim_images' = total_trim_images + Len(a.trim_times)
        /\ total_csv_lines' = total_csv_lines + Len(a.csv_times)
        /\ IF warnings_bound
           THEN /\ date_summary' = Put(date_summary, NextDateDir, SummaryEntry(a.trim_times, a.csv_times, warnings))
                /\ pc' = pc
           ELSE /\ date_summary' = date_summary
                /\ pc' = "crashed"
  /\ visited' = Append(visited, NextDateDir)
  /\ date_dir' = NextDateDir
  /\ trim_files' = ListNpy(x.listing)
  /\ csv_file' = x.csv
  /\ UNCHANGED <<roots, halt_msg, csv_match_required, trim_date_directories, csv_date_files, common_dates, warnings, warnings_bound, report>>

(* ---------------------------------------------------------------------- *)
(* The final report, lines 331-365.                                       *)
(* ---------------------------------------------------------------------- *)
RECURSIVE SummaryLines(_)
SummaryLines(keys) ==
  IF keys = <<>> THEN <<>>
  ELSE <<[date |-> Head(keys), trim_images |-> date_summary[Head(keys)].trim_images, csv_lines |-> date_summary[Head(keys)].csv_lines, consistent |-> date_summary[Head(keys)].consistent]>> \o SummaryLines(Tail(keys))

\* lines 354-357
RECURSIVE AllWarnings(_)
AllWarnings(keys) ==
  IF keys = <<>> THEN <<>>
  ELSE [i \in 1..Len(date_summary[Head(keys)].warnings) |-> [date |-> Head(keys), warning |-> date_summary[Head(keys)].warnings[i]]] \o AllWarnings(Tail(keys))

Report ==
  /\ pc = "loop"
  /\ Len(visited) = Len(common_dates)
  /\ pc' = "done"
  /\ report' = [printed |-> TRUE,
                lines |-> SummaryLines(SortedKeys(DOMAIN date_summary)),
                total_trim_images |-> total_trim_images,
                total_csv_lines |-> total_csv_lines,
                overall_consistent |-> (total_trim_images = total_csv_lines),
                all_warnings |-> AllWarnings(SortedKeys(DOMAIN date_summary))]
  /\ UNCHANGED <<roots, halt_msg, csv_match_required, trim_date_directories, csv_date_files, common_dates, visited, date_dir, outcome, trim_files, csv_file, trim_times, csv_times, time_diffs, set_time_diffs, warnings, warnings_bound, total_trim_images, total_csv_lines, date_summary, inline>>

(* ---------------------------------------------------------------------- *)
(* Specifications.                                                        *)
(* Spec is a whole run of check_trim_image_csv_timing.  SpecDate starts   *)
(* after discovery found the single common date 20241213 and analyses     *)
(* that date over the larger input alphabet, with either value of         *)
(* csv_match_required.                                                    *)
(* ---------------------------------------------------------------------- *)
Next ==
  \/ Discover
  \/ SkipDate
  \/ (InLoop /\ \E x \in RunEmpty : CsvFault(x))
  \/ (InLoop /\ \E x \in RunUnreadable : CsvUnreadable(x))
  \/ (InLoop /\ \E x \in RunAccepted : PairDate(x))
  \/ (InLoop /\ \E x \in RunAccepted : MismatchDate(x))
  \/ Report

Spec == Init /\ [][Next]_vars

InitDate ==
  /\ pc = "loop"
  /\ roots = AllPresent
  /\ halt_msg = ""
  /\ csv_match_required \in BOOLEAN
  /\ trim_date_directories = {20241213}
  /\ csv_date_files = {20241213}
  /\ common_dates = <<20241213>>
  /\ visited = <<>>
  /\ date_dir = 0
  /\ outcome = EmptyMap
  /\ trim_files = <<>>
  /\ csv_file = NoFile
  /\ trim_times = <<>>
  /\ csv_times = <<>>
  /\ time_diffs = <<>>
  /\ set_time_diffs = <<>>
  /\ warnings = <<>>
  /\ warnings_bound = FALSE
  /\ total_trim_images = 0
  /\ total_csv_lines = 0
  /\ date_summary = EmptyMap
  /\ inline = EmptyMap
  /\ report = NoReport

NextDate ==
  \/ SkipDate
  \/ (InLoop /\ \E x \in DateEmpty : CsvFault(x))
  \/ (InLoop /\ \E x \in DateUnreadable : CsvUnreadable(x))
  \/ (InLoop /\ \E x \in DateAccepted : PairDate(x))
  \/ (InLoop /\ \E x \in DateAccepted : MismatchDate(x))
  \/ Report

SpecDate == InitDate /\ [][NextDate]_vars

(* ---------------------------------------------------------------------- *)
(* Vocabulary of the properties.                                          *)
(* ---------------------------------------------------------------------- *)
\* how the latest iteration ended
Status == IF date_dir \in DOMAIN outcome THEN outcome[date_dir] ELSE "none"

SkipStatuses == DirFaults \cup {"csv read error"}

RECURSIVE SumOver(_, _, _)
SumOver(m, keys, field) ==
  IF keys = {} THEN 0
  ELSE LET k == CHOOSE x \in keys : TRUE
       IN (IF field = "trim_images" THEN m[k].trim_images ELSE m[k].csv_lines) + SumOver(m, keys \ {k}, field)

\* every order in which the elements of s can be listed
PermutationsOf(s) ==
  LET n == Len(s)
      bij == {f \in [1..n -> 1..n] : \A i, j \in 1..n : i # j => f[i] # f[j]}
  IN {[i \in 1..n |-> s[f[i]]] : f \in bij}

\* the data rows of a file that carry a timestamp, and their number
HasTimestamp(row) == Len(row) > 0 /\ Len(row[1]) \in {5, 6}

DataRows(file) == SelectSeq(file.rows, HasTimestamp)

\* the data rows in the order of their timestamps (rows of equal timestamp
\* in file order)
RECURSIVE RowsByTime(_)
RowsByTime(rows) ==
  IF rows = <<>> THEN <<>>
  ELSE LET sorted == RowsByTime(SubSeq(rows, 1, Len(rows) - 1))
           x == rows[Len(rows)]
           k == Cardinality({i \in 1..Len(sorted) : parse_csv_time(sorted[i][1]) <= parse_csv_time(x[1])})
       IN SubSeq(sorted, 1, k) \o <<x>> \o SubSeq(sorted, k + 1, Len(sorted))

\* position of a file name in trim_times (0 when absent)
IndexOfFile(name) == IF \E i \in 1..Len(trim_times) : trim_times[i].name = name THEN CHOOSE i \in 1..Len(trim_times) : trim_times[i].name = name ELSE 0

\* 0-based index of the pair during whose processing a warning is appended,
\* then the place of the warning within that pair's processing
WarningRank(w) ==
  IF w.kind = "time_diff" THEN 3 * (IndexOfFile(w.file) - 1)
  ELSE IF w.kind = "trim_interval" THEN 3 * (2 * w.set - 1) + 1
  ELSE 3 * (2 * w.set - 1) + 2

WarnedFile(name) == \E j \in 1..Len(warnings) : warnings[j].kind = "time_diff" /\ warnings[j].file = name

WarnedSet(k, kind) == \E j \in 1..Len(warnings) : warnings[j].kind = kind /\ warnings[j].set = k

PairDiff(i) == Abs(trim_times[i].time - csv_times[i])

(* ---------------------------------------------------------------------- *)
(* C1.  Every entry of date_summary is marked consistent exactly when its *)
(* image count equals its CSV row count, and the entry of the date just   *)
(* processed carries the lengths of that date's two parsed lists.         *)
(* ---------------------------------------------------------------------- *)
C1_ConsistentIffCountsEqual ==
  /\ \A d \in DOMAIN date_summary : date_summary[d].consistent <=> (date_summary[d].trim_images = date_summary[d].csv_lines)
  /\ date_dir \in DOMAIN date_summary => (date_summary[date_dir].trim_images = Len(trim_times) /\ date_summary[date_dir].csv_lines = Len(csv_times))

C1_Witness ==
  /\ pc = "done"
  /\ \E d1, d2 \in DOMAIN date_summary : date_summary[d1].consistent /\ date_summary[d1].trim_images > 0 /\ ~date_summary[d2].consistent

(* ---------------------------------------------------------------------- *)
(* C2.  A date whose two sorted lists differ in length, wherever it comes *)
(* in the processing order, is marked failed, gets no pair and no set,    *)
(* has both counts added to the totals, gets a summary entry with         *)
(* consistent = FALSE, and the run goes on.                               *)
(* ---------------------------------------------------------------------- *)
C2_MismatchIsRecorded ==
  Status = "failed" =>
    /\ pc \in {"loop", "done"}
    /\ time_diffs = <<>> /\ set_time_diffs = <<>>
    /\ date_dir \in DOMAIN date_summary
    /\ ~date_summary[date_dir].consistent
    /\ total_trim_images = SumOver(date_summary, DOMAIN date_summary, "trim_images")
    /\ total_csv_lines = SumOver(date_summary, DOMAIN date_summary, "csv_lines")

(* ---------------------------------------------------------------------- *)
(* C3.  The warnings stored for a date, and listed under it in the final  *)
(* report, are exactly the warnings produced while that date was          *)
(* processed, in the order they were produced.                            *)
(* ---------------------------------------------------------------------- *)
C3_WarningsBelongToTheirDate ==
  /\ \A d \in DOMAIN date_summary : date_summary[d].warnings = inline[d]
  /\ report.printed => \A d \in DOMAIN date_summary : SelectSeq(report.all_warnings, LAMBDA w : w.date = d) = [i \in 1..Len(inline[d]) |-> [date |-> d, warning |-> inline[d][i]]]

(* ---------------------------------------------------------------------- *)
(* C4.  For a matched date, listing the image files in another order and  *)
(* writing the CSV data rows in another order changes neither the         *)
(* sequence of pairwise time differences nor the warnings.                *)
(* ---------------------------------------------------------------------- *)
C4_PermutationInvariant ==
  (Status = "matched" /\ csv_file.utf8_ok) =>
    \A p \in PermutationsOf(trim_files), q \in PermutationsOf(csv_file.rows) :
      LET a == Analyse(p, [csv_file EXCEPT !.rows = q], csv_match_required)
      IN a.matched /\ a.loop.time_diffs = time_diffs /\ a.loop.warnings = warnings

(* ---------------------------------------------------------------------- *)
(* C5.  For a matched date with n time-ordered pairs exactly n \div 2     *)
(* sets are formed; set k has set_number k, is made of the images at      *)
(* sorted positions 2k-1 and 2k (counted from 1), its trim interval is    *)
(* the absolute difference of their times, and it is created while the    *)
(* pair at the second of these positions is processed.                    *)
(* ---------------------------------------------------------------------- *)
C5_SetsFromConsecutivePairs ==
  Status = "matched" =>
    LET n == Len(trim_times)
    IN /\ Len(csv_times) = n /\ Len(time_diffs) = n
       /\ \A i \in 1..(n - 1) : trim_times[i].time <= trim_times[i + 1].time
       /\ {trim_times[i].name : i \in 1..n} = {f.name : f \in {g \in Range(trim_files) : g.groups # <<>>}}
       /\ Len(set_time_diffs) = n \div 2
       /\ \A k \in 1..(n \div 2) :
            /\ set_time_diffs[k].set_number = k
            /\ set_time_diffs[k].trim_file_prev = trim_times[2 * k - 1].name
            /\ set_time_diffs[k].trim_file_curr = trim_times[2 * k].name
            /\ set_time_diffs[k].trim_diff = Abs(trim_times[2 * k].time - trim_times[2 * k - 1].time)
       /\ \A j \in 1..Len(warnings) : warnings[j].kind # "time_diff" => warnings[j].set \in 1..(n \div 2)
       /\ \A j \in 1..(Len(warnings) - 1) : WarningRank(warnings[j]) < WarningRank(warnings[j + 1])

C5_Witness ==
  /\ Status = "matched"
  /\ Len(trim_times) = 4 /\ Len(csv_times) = 4
  /\ Len(set_time_diffs) = 2
  /\ set_time_diffs[2].trim_file_prev = trim_times[3].name
  /\ \E j \in 1..Len(warnings) : warnings[j].kind = "trim_interval"

(* ---------------------------------------------------------------------- *)
(* C6.  For every matched pair a time-difference warning is appended      *)
(* exactly when the absolute image-vs-CSV difference is at least          *)
(* time_diff_threshold seconds: a difference equal to the threshold       *)
(* warns, a difference one millisecond below does not.                    *)
(* ---------------------------------------------------------------------- *)
C6_TimeDiffWarningInclusive ==
  Status = "matched" =>
    /\ \A i \in 1..Len(trim_times) : WarnedFile(trim_times[i].name) <=> PairDiff(i) >= time_diff_threshold * 1000
    /\ Cardinality({j \in 1..Len(warnings) : warnings[j].kind = "time_diff"}) = Cardinality({i \in 1..Len(trim_times) : PairDiff(i) >= time_diff_threshold * 1000})
    /\ \A i \in 1..Len(trim_times) : time_diffs[i] = PairDiff(i)

C6_Witness ==
  /\ Status = "matched"
  /\ \E i, j \in 1..Len(trim_times) :
       /\ PairDiff(i) = time_diff_threshold * 1000 /\ WarnedFile(trim_times[i].name)
       /\ PairDiff(j) = time_diff_threshold * 1000 - 1 /\ ~WarnedFile(trim_times[j].name)

(* ---------------------------------------------------------------------- *)
(* C7.  For every set, csv_match is TRUE exactly when the two CSV data    *)
(* rows whose timestamps stand at the set's two sorted positions are      *)
(* equal field by field, and a CSV-row warning is appended exactly when   *)
(* csv_match_required holds and they differ; also for files with dropped  *)
(* rows, rows out of time order, or read with the secondary encoding.     *)
(* ---------------------------------------------------------------------- *)
C7_RowMatchBySortedPosition ==
  (Status = "matched" /\ Len(DataRows(csv_file)) = Len(csv_times)) =>
    LET rows == RowsByTime(DataRows(csv_file))
    IN \A k \in 1..Len(set_time_diffs) :
         /\ set_time_diffs[k].csv_match <=> (rows[2 * k - 1] = rows[2 * k])
         /\ WarnedSet(k, "csv_match") <=> (csv_match_required /\ rows[2 * k - 1] # rows[2 * k])

(* ---------------------------------------------------------------------- *)
(* C8.  A date that hits a recoverable per-date error is skipped: it gets *)
(* no summary entry and adds nothing to the totals, the loop goes on with *)
(* the next date and the final report is produced.                        *)
(* ---------------------------------------------------------------------- *)
C8_SkippedDateLeavesNoTrace ==
  /\ \A d \in DOMAIN outcome : outcome[d] \in SkipStatuses => (d \notin DOMAIN date_summary /\ d \notin DOMAIN inline)
  /\ Status \in SkipStatuses => pc \in {"loop", "done"}
  /\ pc \in {"loop", "done"} =>
       /\ total_trim_images = SumOver(date_summary, DOMAIN date_summary, "trim_images")
       /\ total_csv_lines = SumOver(date_summary, DOMAIN date_summary, "csv_lines")
       /\ DOMAIN date_summary = {d \in DOMAIN outcome : outcome[d] \notin SkipStatuses}
  /\ pc = "done" =>
       /\ report.printed
       /\ DOMAIN outcome = Range(common_dates)
       /\ {report.lines[i].date : i \in 1..Len(report.lines)} = {d \in Range(common_dates) : outcome[d] \notin SkipStatuses}
       /\ report.total_trim_images = total_trim_images /\ report.total_csv_lines = total_csv_lines

C8_Witness ==
  /\ pc = "done"
  /\ Len(common_dates) = 2
  /\ outcome[common_dates[1]] = "csv read error"
  /\ outcome[common_dates[2]] = "matched"
  /\ date_summary[common_dates[2]].trim_images > 0

(* ---------------------------------------------------------------------- *)
(* C9.  When a root is missing or not a directory, or no date directory   *)
(* or no dated CSV file is found, or the two key sets have no common      *)
(* DateKey, the function returns without any per-date work, summary entry *)
(* or report.  Otherwise the DateKeys are processed in ascending order    *)
(* and are exactly the common ones.                                       *)
(* ---------------------------------------------------------------------- *)
C9_HaltOrSortedIntersection ==
  pc # "start" =>
    LET common == trim_date_directories \cap csv_date_files
    IN IF roots # AllPresent \/ trim_date_directories = {} \/ csv_date_files = {} \/ common = {}
       THEN /\ pc = "halted"
            /\ visited = <<>> /\ date_dir = 0
            /\ DOMAIN outcome = {} /\ DOMAIN date_summary = {}
            /\ total_trim_images = 0 /\ total_csv_lines = 0
            /\ ~report.printed
       ELSE /\ pc # "halted"
            /\ Range(visited) \subseteq common
            /\ \A i \in 1..(Len(visited) - 1) : visited[i] < visited[i + 1]
            /\ \A d \in common : \A i \in 1..Len(visited) : d < visited[i] => d \in Range(visited)
            /\ pc = "done" => Range(visited) = common

C9_Witness ==
  /\ pc = "done"
  /\ visited = <<20241213, 20241214>>
  /\ 20241212 \in trim_date_directories

(* ---------------------------------------------------------------------- *)
(* C10.  For every processed date the CSV row count is the number of data *)
(* rows of the file whose first column is non-empty and parses, each      *)
(* counted once; also when the utf-8 read fails part-way and the file is  *)
(* read again as shift_jis.                                               *)
(* ---------------------------------------------------------------------- *)
C10_EachRowCountedOnce ==
  date_dir \in DOMAIN date_summary =>
    /\ Len(csv_times) = Len(DataRows(csv_file))
    /\ date_summary[date_dir].csv_lines = Len(DataRows(csv_file))

====
